---- MODULE Spec2Model ----
(***************************************************************************)
(* Model of app.py: the offline legal assistant's core.                    *)
(*                                                                         *)
(*   - Fragment Locator : detect_file, find_article, load_law              *)
(*   - Generation Engine: get_llm (lazy shared handle), AIWorker.run       *)
(*   - Query Coordinator: Main.do_search, Main.ask_ai, Main.ai_done        *)
(*                                                                         *)
(* Text is modelled as a sequence of Unicode code points, so that          *)
(* str.lower(), str.strip(), str.find(), str.startswith() and slicing are  *)
(* computed the way Python computes them.  The alphabet of the model is    *)
(* ASCII, the Cyrillic block and the punctuation the program names; on it  *)
(* str.lower() maps every character to one character.                      *)
(***************************************************************************)
EXTENDS Integers, Sequences, FiniteSets

VARIABLES
    laws,         \* the files of BASE_DIR/laws: name -> [exists, text]
    laws_ok,      \* Main.laws_ok, computed once in Main.__init__
    arg,          \* the text of Main.input the next search reads (locator runs)
    found,        \* what the last find_article call returned (with its idx)
    HAS_LLAMA,    \* module global: llama_cpp could be imported
    modelExists,  \* os.path.exists(MODEL_PATH)
    llm,          \* module global llm: 0 is None, n > 0 the n-th Llama built
    built,        \* how many Llama objects were constructed
    failed,       \* how many Llama(...) calls raised
    workers,      \* one AIWorker (and its thread) per ask_ai call that passed
    events,       \* queued finished-signal deliveries to the interactive thread
    out,          \* Main.out, the display log: a sequence of appended entries
    calls,        \* calls[w]: how often Main.ai_done ran for worker w
    raw,          \* the generated text the post-processing run reads
    post          \* the post-processing run's locals

vars == <<laws, laws_ok, arg, found, HAS_LLAMA, modelExists, llm, built,
          failed, workers, events, out, calls, raw, post>>

-----------------------------------------------------------------------------
(* Bounds of the model.                                                    *)

\* requests (do_search and ask_ai calls with a non-blank text) in one run
\* of the whole program
MaxRequests == 2
\* characters a long document has beyond the window on either side
MaxExtra == 1
\* files present under laws/ in a locator run
MaxDocs == 2
\* pieces a generated text is put together from
MaxPieces == 3

-----------------------------------------------------------------------------
(* Python's str operations on sequences of code points.                    *)

Max(a, b) == IF a >= b THEN a ELSE b
Min(a, b) == IF a <= b THEN a ELSE b

\* str.lower() on one character: A-Z, the Cyrillic capitals and their Ё.
LowerChar(c) ==
    IF c >= 65 /\ c <= 90 THEN c + 32
    ELSE IF c >= 1040 /\ c <= 1071 THEN c + 32
    ELSE IF c = 1025 THEN 1105
    ELSE c

\* str.lower()
Lower(s) == [i \in 1..Len(s) |-> LowerChar(s[i])]

\* what str.strip() removes: space, \t, \n, \v, \f, \r
IsSpace(c) == c \in {32, 9, 10, 11, 12, 13}

\* str.lstrip()
RECURSIVE LStrip(_)
LStrip(s) ==
    IF s # <<>> /\ IsSpace(Head(s)) THEN LStrip(Tail(s)) ELSE s

\* str.rstrip()
RECURSIVE RStrip(_)
RStrip(s) ==
    IF s # <<>> /\ IsSpace(s[Len(s)])
    THEN RStrip(SubSeq(s, 1, Len(s) - 1)) ELSE s

\* str.strip()
Strip(s) == RStrip(LStrip(s))

\* str.startswith(p)
StartsWith(s, p) ==
    Len(p) <= Len(s) /\ SubSeq(s, 1, Len(p)) = p

\* p occurs in s at 0-based offset i
OccursAt(s, p, i) ==
    /\ i >= 0
    /\ i + Len(p) <= Len(s)
    /\ \A k \in 1..Len(p) : s[i + k] = p[k]

\* str.find(p): the lowest offset where p occurs, -1 when it does not
Find(s, p) ==
    LET hits == {i \in 0..(Len(s) - Len(p)) : OccursAt(s, p, i)}
    IN  IF hits = {} THEN -1
        ELSE CHOOSE i \in hits : \A j \in hits : i <= j

\* p in s
Contains(s, p) == Find(s, p) # -1

\* s[a:b] as Python slices: a negative index counts from the end, and both
\* ends are clipped to the string.
PySlice(s, a, b) ==
    LET n  == Len(s)
        lo == IF a < 0 THEN Max(0, n + a) ELSE Min(a, n)
        hi == IF b < 0 THEN Max(0, n + b) ELSE Min(b, n)
    IN  SubSeq(s, lo + 1, hi)

\* \d on the model's alphabet
IsDigit(c) == c >= 48 /\ c <= 57

\* re.findall(r"\d+", q)[0], or <<>> for None (no digits in q)
FirstNumber(q) ==
    LET starts == {i \in 1..Len(q) : IsDigit(q[i])}
    IN  IF starts = {} THEN <<>>
        ELSE LET b == CHOOSE i \in starts : \A j \in starts : i <= j
                 ends == {e \in b..Len(q) :
                            /\ \A k \in b..e : IsDigit(q[k])
                            /\ (e = Len(q) \/ ~IsDigit(q[e + 1]))}
                 e == CHOOSE x \in ends : \A y \in ends : x <= y
             IN  SubSeq(q, b, e)

-----------------------------------------------------------------------------
(* The Fragment Locator: LAWS_FILES, load_law, detect_file, find_article.  *)

\* Python's None where a file name is expected
None == "None"

LAWS_FILES ==
    << "constitution_rf.txt", "gk_rf.txt", "uk_rf.txt",
       "koap_rf.txt", "law_police.txt", "law_consumer.txt" >>

LawNames == {LAWS_FILES[i] : i \in 1..Len(LAWS_FILES)}

\* characters find_article keeps before the match offset
WindowBefore == 80
\* characters find_article keeps from the match offset on
WindowAfter == 900

\* load_law: the file's text, "" when it cannot be read
load_law(filename) ==
    IF laws[filename].exists THEN laws[filename].text ELSE <<>>

\* "уголов"
kw_ugolov == <<1091, 1075, 1086, 1083, 1086, 1074>>
\* "ук"
kw_uk == <<1091, 1082>>
\* "коап"
kw_koap == <<1082, 1086, 1072, 1087>>
\* "административ"
kw_administrativ ==
    <<1072, 1076, 1084, 1080, 1085, 1080, 1089, 1090, 1088, 1072, 1090, 1080, 1074>>
\* "гк"
kw_gk == <<1075, 1082>>
\* "граждан"
kw_grazhdan == <<1075, 1088, 1072, 1078, 1076, 1072, 1085>>
\* "конституц"
kw_konstituc == <<1082, 1086, 1085, 1089, 1090, 1080, 1090, 1091, 1094>>
\* "полици"
kw_polici == <<1087, 1086, 1083, 1080, 1094, 1080>>
\* "потребител"
kw_potrebitel == <<1087, 1086, 1090, 1088, 1077, 1073, 1080, 1090, 1077, 1083>>

\* A slip in the cascade: the civil code is tested before the criminal code.
detect_file_civil_first(q0) ==
    LET q == Lower(q0)
    IN  IF Contains(q, kw_gk) \/ Contains(q, kw_grazhdan) THEN "gk_rf.txt"
        ELSE IF Contains(q, kw_ugolov) \/ Contains(q, kw_uk) THEN "uk_rf.txt"
        ELSE IF Contains(q, kw_koap) \/ Contains(q, kw_administrativ)
             THEN "koap_rf.txt"
        ELSE IF Contains(q, kw_konstituc) THEN "constitution_rf.txt"
        ELSE IF Contains(q, kw_polici) THEN "law_police.txt"
        ELSE IF Contains(q, kw_potrebitel) THEN "law_consumer.txt"
        ELSE None

\* detect_file: the first category, in the cascade's order, one of whose
\* trigger substrings the lowercased query contains
detect_file(q0) ==
    LET q == Lower(q0)
    IN  IF Contains(q, kw_ugolov) \/ Contains(q, kw_uk) THEN "uk_rf.txt"
        ELSE IF Contains(q, kw_koap) \/ Contains(q, kw_administrativ)
             THEN "koap_rf.txt"
        ELSE IF Contains(q, kw_gk) \/ Contains(q, kw_grazhdan) THEN "gk_rf.txt"
        ELSE IF Contains(q, kw_konstituc) THEN "constitution_rf.txt"
        ELSE IF Contains(q, kw_polici) THEN "law_police.txt"
        ELSE IF Contains(q, kw_potrebitel) THEN "law_consumer.txt"
        ELSE None

\* "статья "
ArticleWord == <<1089, 1090, 1072, 1090, 1100, 1103, 32>>

\* find_article's (None, None); idx is the local idx, -1 when nothing matched
NotFound == [fname |-> None, frag |-> <<>>, idx |-> -1]

\* A slip in the window: the start index is not clamped at 0.
Window_unclamped(full, idx) ==
    PySlice(full, idx - WindowBefore, idx + WindowAfter)

\* full[max(0, idx - 80): idx + 900]
Window(full, idx) ==
    PySlice(full, Max(0, idx - WindowBefore), idx + WindowAfter)

\* A slip in the scan: the first match is remembered but the loop goes on,
\* so the last document that contains q wins.
RECURSIVE FallbackScan_last_wins(_, _)
FallbackScan_last_wins(q, k) ==
    IF k > Len(LAWS_FILES) THEN NotFound
    ELSE LET f    == LAWS_FILES[k]
             full == load_law(f)
             idx  == Find(Lower(full), q)
             rest == FallbackScan_last_wins(q, k + 1)
         IN  IF rest.fname # None THEN rest
             ELSE IF full # <<>> /\ idx # -1
                  THEN [fname |-> f, frag |-> Window(full, idx), idx |-> idx]
                  ELSE NotFound

\* find_article's loop over LAWS_FILES, from its k-th file on
RECURSIVE FallbackScan(_, _)
FallbackScan(q, k) ==
    IF k > Len(LAWS_FILES) THEN NotFound
    ELSE LET f    == LAWS_FILES[k]
             full == load_law(f)
             idx  == Find(Lower(full), q)
         IN  IF full = <<>> THEN FallbackScan(q, k + 1)
             ELSE IF idx # -1
                  THEN [fname |-> f, frag |-> Window(full, idx), idx |-> idx]
                  ELSE FallbackScan(q, k + 1)

\* find_article's precise lookup: "статья <num>" in the classified document
PreciseLookup(num, codex) ==
    IF num # <<>> /\ codex # None
    THEN LET full    == load_law(codex)
             low     == Lower(full)
             pattern == ArticleWord \o num
             idx     == Find(low, pattern)
         IN  IF idx # -1
             THEN [fname |-> codex, frag |-> Window(full, idx), idx |-> idx]
             ELSE NotFound
    ELSE NotFound

\* find_article
find_article(query, ok) ==
    IF ~ok THEN NotFound
    ELSE LET q       == Lower(query)
             num     == FirstNumber(q)
             codex   == detect_file(q)
             precise == PreciseLookup(num, codex)
         IN  IF precise.fname # None THEN precise ELSE FallbackScan(q, 1)

-----------------------------------------------------------------------------
(* The inputs of the locator runs: the files under laws/ and the queries.  *)

\* "Статья 158 УК РФ. Кража"
ArticleText ==
    <<1057, 1090, 1072, 1090, 1100, 1103, 32, 49, 53, 56, 32, 1059, 1050, 32,
      1056, 1060, 46, 32, 1050, 1088, 1072, 1078, 1072>>
\* "Кража."
OtherText == <<1050, 1088, 1072, 1078, 1072, 46>>

\* n copies of "-"
Fill(n) == [i \in 1..n |-> 45]

NoFile == [exists |-> FALSE, text |-> <<>>]

\* a document holding the article, before characters ahead of it and after behind
ArticleDoc(before, after) ==
    [exists |-> TRUE, text |-> Fill(before) \o ArticleText \o Fill(after)]

OtherDoc == [exists |-> TRUE, text |-> OtherText]

\* how much text surrounds the article: none before it and more than the
\* window after it, or more than the window before it and none after it
PadPairs ==
    { <<0, WindowAfter + MaxExtra>>,
      <<WindowBefore + MaxExtra, 0>> }

DocOfKind(kind, pad) ==
    IF kind = "absent" THEN NoFile
    ELSE IF kind = "article" THEN ArticleDoc(pad[1], pad[2])
    ELSE OtherDoc

Corpora ==
    { [f \in LawNames |-> DocOfKind(kinds[f], pad)] :
        kinds \in { k \in [LawNames -> {"absent", "article", "other"}] :
                     Cardinality({f \in LawNames : k[f] # "absent"}) <= MaxDocs },
        pad \in PadPairs }

\* the texts typed into Main.input
\* ""
in_empty == <<>>
\* "  "
in_blank == <<32, 32>>
\* " Кража "
in_krazha == <<32, 1050, 1088, 1072, 1078, 1072, 32>>
\* "статья 158"
in_statya158 == <<1089, 1090, 1072, 1090, 1100, 1103, 32, 49, 53, 56>>
\* "УК 158"
in_UK158 == <<1059, 1050, 32, 49, 53, 56>>
\* "ук гк 158"
in_uk_gk_158 == <<1091, 1082, 32, 1075, 1082, 32, 49, 53, 56>>
\* "гк 15"
in_gk15 == <<1075, 1082, 32, 49, 53>>
\* "статья 158 ук"
in_statya158uk == <<1089, 1090, 1072, 1090, 1100, 1103, 32, 49, 53, 56, 32, 1091, 1082>>
\* "ук 9"
in_uk9 == <<1091, 1082, 32, 57>>
\* "can police stop me"
in_police ==
    <<99, 97, 110, 32, 112, 111, 108, 105, 99, 101, 32, 115, 116, 111, 112, 32, 109, 101>>

LocatorInputs ==
    { in_empty, in_krazha, in_statya158, in_UK158, in_uk_gk_158,
      in_gk15, in_statya158uk, in_uk9 }

-----------------------------------------------------------------------------
(* The Query Coordinator: Main.__init__, do_search.                        *)

\* Main.__init__: laws/ exists and holds at least one of LAWS_FILES
LawsOk(files) == \E f \in LawNames : files[f].exists

\* no find_article call was made yet
NoCall == [query |-> <<>>, fname |-> None, frag |-> <<>>, idx |-> -1]

\* an entry appended to Main.out: by names the execution context that made
\* the append ("main" is the interactive thread), ask the ask_ai call the
\* entry belongs to (0: none)
Entry(by, kind, ask, fname, text) ==
    [by |-> by, kind |-> kind, ask |-> ask, fname |-> fname, text |-> text]

\* Main.home: the notice Main.__init__ puts into the log
HomeEntry ==
    Entry("main", IF laws_ok THEN "home" ELSE "home_nolaws", 0, None, <<>>)

SearchKinds == {"search_nolaws", "search_none", "search_found"}

NumSearches == Cardinality({i \in DOMAIN out : out[i].kind \in SearchKinds})

\* Main.do_search with text in the input field
do_search(text) ==
    LET q == Strip(text)
    IN  IF q = <<>>
        THEN UNCHANGED vars
        ELSE LET r == find_article(q, laws_ok)
                 e == IF r.fname = None
                      THEN IF ~laws_ok
                           THEN Entry("main", "search_nolaws", 0, None, <<>>)
                           ELSE Entry("main", "search_none", 0, None, <<>>)
                      ELSE Entry("main", "search_found", 0, r.fname, r.frag)
             IN  /\ found' = [query |-> q, fname |-> r.fname,
                              frag |-> r.frag, idx |-> r.idx]
                 /\ out' = Append(out, e)
                 /\ UNCHANGED <<laws, laws_ok, arg, HAS_LLAMA, modelExists,
                                llm, built, failed, workers, events, calls,
                                raw, post>>

\* the locator runs: every corpus, every query, one search each
InitLocate ==
    /\ laws \in Corpora
    /\ laws_ok = LawsOk(laws)
    /\ arg \in LocatorInputs
    /\ found = NoCall
    /\ HAS_LLAMA = FALSE
    /\ modelExists = FALSE
    /\ llm = 0
    /\ built = 0
    /\ failed = 0
    /\ workers = <<>>
    /\ events = <<>>
    /\ out = <<HomeEntry>>
    /\ calls = <<>>
    /\ raw = <<>>
    /\ post = [stripped |-> <<>>, text |-> <<>>]

SearchTyped == found = NoCall /\ do_search(arg)

SpecLocate == InitLocate /\ [][SearchTyped]_vars

-----------------------------------------------------------------------------
(* The Generation Engine: AIWorker.run's post-processing of the result.    *)

\* "Ответ:"
P_Otvet == <<1054, 1090, 1074, 1077, 1090, 58>>
\* "ответ:"
P_otvet == <<1086, 1090, 1074, 1077, 1090, 58>>
\* "Ответ пользователя:"
P_OtvetPolz ==
    <<1054, 1090, 1074, 1077, 1090, 32, 1087, 1086, 1083, 1100, 1079, 1086,
      1074, 1072, 1090, 1077, 1083, 1103, 58>>
\* "Вопрос пользователя:"
P_VoprosPolz ==
    <<1042, 1086, 1087, 1088, 1086, 1089, 32, 1087, 1086, 1083, 1100, 1079,
      1086, 1074, 1072, 1090, 1077, 1083, 1103, 58>>
\* "Вопрос:"
P_Vopros == <<1042, 1086, 1087, 1088, 1086, 1089, 58>>

\* the list the for loop of AIWorker.run walks
EchoPrefixes == <<P_Otvet, P_otvet, P_OtvetPolz, P_VoprosPolz, P_Vopros>>

\* text[len(prefix):].lstrip()
DropPrefix(text, prefix) ==
    LStrip(SubSeq(text, Len(prefix) + 1, Len(text)))

\* A slip in the loop: stripping starts over after every hit, until the text
\* begins with none of the prefixes.
RECURSIVE StripEchoPrefixes_until_clean(_, _)
StripEchoPrefixes_until_clean(text, k) ==
    LET hit == {j \in DOMAIN EchoPrefixes : StartsWith(text, EchoPrefixes[j])}
    IN  IF hit = {} THEN text
        ELSE StripEchoPrefixes_until_clean(
                 DropPrefix(text, EchoPrefixes[CHOOSE j \in hit : \A i \in hit : j <= i]), k)

\* the for loop over the prefixes, from the k-th prefix on: each prefix is
\* tested once, against the text the earlier prefixes left
RECURSIVE StripEchoPrefixes(_, _)
StripEchoPrefixes(text, k) ==
    IF k > Len(EchoPrefixes) THEN text
    ELSE StripEchoPrefixes(
             IF StartsWith(text, EchoPrefixes[k])
             THEN DropPrefix(text, EchoPrefixes[k])
             ELSE text,
             k + 1)

\* "ИИ не смог сформулировать ответ. Попробуйте переформулировать вопрос."
FallbackMessage ==
    <<1048, 1048, 32, 1085, 1077, 32, 1089, 1084, 1086, 1075, 32, 1089, 1092,
      1086, 1088, 1084, 1091, 1083, 1080, 1088, 1086, 1074, 1072, 1090, 1100,
      32, 1086, 1090, 1074, 1077, 1090, 46, 32, 1055, 1086, 1087, 1088, 1086,
      1073, 1091, 1081, 1090, 1077, 32, 1087, 1077, 1088, 1077, 1092, 1086,
      1088, 1084, 1091, 1083, 1080, 1088, 1086, 1074, 1072, 1090, 1100, 32,
      1074, 1086, 1087, 1088, 1086, 1089, 46>>

\* the characters of ".?!…»\"'"
TerminalMarks == {46, 63, 33, 8230, 187, 34, 39}

\* "…"
Ellipsis == <<8230>>

\* if text and text[-1] not in ".?!…»\"'": text += "…"
Punctuate(text) ==
    IF text # <<>> /\ text[Len(text)] \notin TerminalMarks
    THEN text \o Ellipsis ELSE text

\* the try block of AIWorker.run after the engine returned result, whose
\* choices[0].text is r (None is <<>>)
PostProcess(r) ==
    LET text     == Strip(r)
        stripped == StripEchoPrefixes(text, 1)
        nonempty == IF stripped = <<>> THEN FallbackMessage ELSE stripped
    IN  Punctuate(nonempty)

\* "Ошибка работы ИИ: "
ErrorPrefix ==
    <<1054, 1096, 1080, 1073, 1082, 1072, 32, 1088, 1072, 1073, 1086, 1090,
      1099, 32, 1048, 1048, 58, 32>>

\* the except branch of AIWorker.run: f"Ошибка работы ИИ: {e}"
ErrorText(message) == ErrorPrefix \o message

\* "Локальный ИИ не настроен.\n\nПроверь, что установлен пакет
\* llama-cpp-python\nи существует файл models/mistral.gguf рядом с программой."
DiagnosticMessage ==
    <<1051, 1086, 1082, 1072, 1083, 1100, 1085, 1099, 1081, 32, 1048, 1048,
      32, 1085, 1077, 32, 1085, 1072, 1089, 1090, 1088, 1086, 1077, 1085, 46,
      10, 10, 1055, 1088, 1086, 1074, 1077, 1088, 1100, 44, 32, 1095, 1090,
      1086, 32, 1091, 1089, 1090, 1072, 1085, 1086, 1074, 1083, 1077, 1085,
      32, 1087, 1072, 1082, 1077, 1090, 32, 108, 108, 97, 109, 97, 45, 99,
      112, 112, 45, 112, 121, 116, 104, 111, 110, 10, 1080, 32, 1089, 1091,
      1097, 1077, 1089, 1090, 1074, 1091, 1077, 1090, 32, 1092, 1072, 1081,
      1083, 32, 109, 111, 100, 101, 108, 115, 47, 109, 105, 115, 116, 114,
      97, 108, 46, 103, 103, 117, 102, 32, 1088, 1103, 1076, 1086, 1084, 32,
      1089, 32, 1087, 1088, 1086, 1075, 1088, 1072, 1084, 1084, 1086, 1081,
      46>>

-----------------------------------------------------------------------------
(* What the engine can answer in a run of the whole program.               *)

\* " Ответ: Да\n"
out_otvet_da == <<32, 1054, 1090, 1074, 1077, 1090, 58, 32, 1044, 1072, 10>>

\* result["choices"][0]["text"]: nothing, or an echoed prefix before an
\* unfinished word
RawOutputs == { <<>>, out_otvet_da }

\* "X"
fault_X == <<88>>

\* str(e) of what the generation call raises
FaultMessages == { fault_X }

\* str(e) of calling None: "'NoneType' object is not callable"
NoneTypeMessage ==
    <<39, 78, 111, 110, 101, 84, 121, 112, 101, 39, 32, 111, 98, 106, 101, 99,
      116, 32, 105, 115, 32, 110, 111, 116, 32, 99, 97, 108, 108, 97, 98, 108,
      101>>

-----------------------------------------------------------------------------
(* The worker threads: get_llm and AIWorker.run, one step per action.      *)
(* A worker is at "start" (thread started, run not yet in get_llm), at     *)
(* "construct" (get_llm saw llm is None and is about to call Llama), at    *)
(* "return" (get_llm is about to return llm), at "run" (get_llm returned   *)
(* into engine) or at "done" (run emitted finished and returned).          *)

Workers == DOMAIN workers

NewWorker(q, frag) ==
    [pc |-> "start", question |-> q, fragment |-> frag, engine |-> 0,
     text |-> <<>>, gen |-> 0, attempted |-> FALSE, failedBefore |-> FALSE]

\* A slip in get_llm: the two early returns are missing, so a call goes on
\* to the handle whether or not the library and the model file are there.
GetLlmCheck_no_preconditions(w) ==
    /\ workers[w].pc = "start"
    /\ workers' = [workers EXCEPT
           ![w].failedBefore = (failed > 0),
           ![w].pc = IF llm = 0 THEN "construct" ELSE "return"]
    /\ UNCHANGED <<laws, laws_ok, arg, found, HAS_LLAMA, modelExists, llm,
                   built, failed, events, out, calls, raw, post>>

\* get_llm up to "if llm is None": the two precondition checks return None,
\* else the handle is read.  failedBefore notes whether a construction had
\* already raised when this call began.
GetLlmCheck(w) ==
    /\ workers[w].pc = "start"
    /\ workers' = [workers EXCEPT
           ![w].failedBefore = (failed > 0),
           ![w].engine = 0,
           ![w].pc = IF ~HAS_LLAMA \/ ~modelExists THEN "run"
                     ELSE IF llm = 0 THEN "construct"
                     ELSE "return"]
    /\ UNCHANGED <<laws, laws_ok, arg, found, HAS_LLAMA, modelExists, llm,
                   built, failed, events, out, calls, raw, post>>

\* get_llm's try block: Llama(...) returns a new object, which is stored in
\* the global, or raises, and get_llm returns None.
GetLlmConstruct(w) ==
    /\ workers[w].pc = "construct"
    /\ \/ /\ built' = built + 1
          /\ llm' = built + 1
          /\ failed' = failed
          /\ workers' = [workers EXCEPT ![w].attempted = TRUE,
                                        ![w].pc = "return"]
       \/ /\ failed' = failed + 1
          /\ UNCHANGED <<llm, built>>
          /\ workers' = [workers EXCEPT ![w].attempted = TRUE,
                                        ![w].engine = 0,
                                        ![w].pc = "run"]
    /\ UNCHANGED <<laws, laws_ok, arg, found, HAS_LLAMA, modelExists,
                   events, out, calls, raw, post>>

\* get_llm's last line: return llm
GetLlmReturn(w) ==
    /\ workers[w].pc = "return"
    /\ workers' = [workers EXCEPT ![w].engine = llm, ![w].pc = "run"]
    /\ UNCHANGED <<laws, laws_ok, arg, found, HAS_LLAMA, modelExists, llm,
                   built, failed, events, out, calls, raw, post>>

\* A slip in the signal's wiring: the slot runs in the emitting thread
\* (a direct connection), so the worker itself appends the answer.
Emit_direct(w, text) ==
    /\ out' = Append(out, Entry("worker", "answer", w, None, text))
    /\ calls' = [calls EXCEPT ![w] = @ + 1]
    /\ events' = events

\* self.finished.emit(text) from the worker's thread: the receiver lives in
\* the interactive thread, so the call of ai_done is queued for that thread.
Emit(w, text) ==
    /\ events' = Append(events, [w |-> w, text |-> text])
    /\ UNCHANGED <<out, calls>>

\* A slip in run: the return after the diagnostic is missing, so run goes on
\* into the try block, calls None, catches the TypeError and emits again.
RunUnavailable_no_return(w) ==
    /\ workers[w].pc = "run"
    /\ workers[w].engine = 0
    /\ workers' = [workers EXCEPT ![w].text = ErrorText(NoneTypeMessage),
                                  ![w].pc = "done"]
    /\ events' = events \o << [w |-> w, text |-> DiagnosticMessage],
                              [w |-> w, text |-> ErrorText(NoneTypeMessage)] >>
    /\ UNCHANGED <<out, calls>>
    /\ UNCHANGED <<laws, laws_ok, arg, found, HAS_LLAMA, modelExists, llm,
                   built, failed, raw, post>>

\* A slip in run: the engine is not tested for None, so the try block calls
\* it, and the TypeError's text is what the callback gets.
RunUnavailable_no_test(w) ==
    /\ workers[w].pc = "run"
    /\ workers[w].engine = 0
    /\ workers' = [workers EXCEPT ![w].text = ErrorText(NoneTypeMessage),
                                  ![w].gen = @ + 1,
                                  ![w].pc = "done"]
    /\ Emit(w, ErrorText(NoneTypeMessage))
    /\ UNCHANGED <<laws, laws_ok, arg, found, HAS_LLAMA, modelExists, llm,
                   built, failed, raw, post>>

\* run with engine None: the fixed diagnostic is emitted and run returns
RunUnavailable(w) ==
    /\ workers[w].pc = "run"
    /\ workers[w].engine = 0
    /\ workers' = [workers EXCEPT ![w].text = DiagnosticMessage,
                                  ![w].pc = "done"]
    /\ Emit(w, DiagnosticMessage)
    /\ UNCHANGED <<laws, laws_ok, arg, found, HAS_LLAMA, modelExists, llm,
                   built, failed, raw, post>>

\* run with an engine: the generation call returns a text, which is
\* post-processed, or raises, and the fault's text is the answer; either way
\* finished is emitted once, after the try statement.
RunGenerate(w) ==
    /\ workers[w].pc = "run"
    /\ workers[w].engine # 0
    /\ \/ \E r \in RawOutputs :
            /\ workers' = [workers EXCEPT ![w].text = PostProcess(r),
                                          ![w].gen = @ + 1,
                                          ![w].pc = "done"]
            /\ Emit(w, PostProcess(r))
       \/ \E m \in FaultMessages :
            /\ workers' = [workers EXCEPT ![w].text = ErrorText(m),
                                          ![w].gen = @ + 1,
                                          ![w].pc = "done"]
            /\ Emit(w, ErrorText(m))
    /\ UNCHANGED <<laws, laws_ok, arg, found, HAS_LLAMA, modelExists, llm,
                   built, failed, raw, post>>

-----------------------------------------------------------------------------
(* The Query Coordinator: ask_ai and ai_done, in the interactive thread.   *)

\* Main.ask_ai with text in the input field
ask_ai(text) ==
    LET q == Strip(text)
    IN  IF q = <<>>
        THEN UNCHANGED vars
        ELSE LET r == find_article(q, laws_ok)
                 w == Len(workers) + 1
             IN  /\ found' = [query |-> q, fname |-> r.fname,
                              frag |-> r.frag, idx |-> r.idx]
                 /\ out' = Append(out, Entry("main", "thinking", w, None, <<>>))
                 /\ workers' = Append(workers, NewWorker(q, r.frag))
                 /\ calls' = Append(calls, 0)
                 /\ UNCHANGED <<laws, laws_ok, arg, HAS_LLAMA, modelExists,
                                llm, built, failed, events, raw, post>>

\* Main.ai_done, run by the interactive thread's event loop for the oldest
\* queued emission
ai_done ==
    /\ events # <<>>
    /\ out' = Append(out, Entry("main", "answer", Head(events).w, None,
                                Head(events).text))
    /\ calls' = [calls EXCEPT ![Head(events).w] = @ + 1]
    /\ events' = Tail(events)
    /\ UNCHANGED <<laws, laws_ok, arg, found, HAS_LLAMA, modelExists, llm,
                   built, failed, workers, raw, post>>

-----------------------------------------------------------------------------
(* The whole program.                                                      *)

\* laws/ as the specification's scenario has it: only uk_rf.txt, which
\* holds the article
ScenarioLaws ==
    [f \in LawNames |-> IF f = "uk_rf.txt" THEN ArticleDoc(0, 0) ELSE NoFile]

\* the texts typed into Main.input before a search and before a question
SearchInputs == { in_blank, in_UK158 }

AskInputs == { in_blank, in_police, in_UK158 }

Init ==
    /\ laws = ScenarioLaws
    /\ laws_ok = LawsOk(laws)
    /\ arg = <<>>
    /\ found = NoCall
    /\ HAS_LLAMA \in BOOLEAN
    /\ modelExists \in BOOLEAN
    /\ llm = 0
    /\ built = 0
    /\ failed = 0
    /\ workers = <<>>
    /\ events = <<>>
    /\ out = <<HomeEntry>>
    /\ calls = <<>>
    /\ raw = <<>>
    /\ post = [stripped |-> <<>>, text |-> <<>>]

NumRequests == NumSearches + Len(workers)

Search == \E text \in SearchInputs : NumRequests < MaxRequests /\ do_search(text)

Ask == \E text \in AskInputs : NumRequests < MaxRequests /\ ask_ai(text)

Next ==
    \/ Search
    \/ Ask
    \/ ai_done
    \/ \E w \in Workers :
         \/ GetLlmCheck(w)
         \/ GetLlmConstruct(w)
         \/ GetLlmReturn(w)
         \/ RunUnavailable(w)
         \/ RunGenerate(w)

Spec == Init /\ [][Next]_vars

-----------------------------------------------------------------------------
(* The post-processing runs: every generated text, post-processed once.    *)

\* "Да"
piece_da == <<1044, 1072>>
\* " "
piece_space == <<32>>
\* "."
piece_dot == <<46>>

\* what a generated text is put together from: the echo prefixes, a word,
\* a blank and a full stop
Pieces ==
    { P_Otvet, P_otvet, P_OtvetPolz, P_VoprosPolz, P_Vopros,
      piece_da, piece_space, piece_dot }

RECURSIVE TextsOf(_)
TextsOf(n) ==
    IF n = 0 THEN { <<>> }
    ELSE LET shorter == TextsOf(n - 1)
         IN  shorter \cup { t \o p : t \in shorter, p \in Pieces }

RawTexts == TextsOf(MaxPieces)

NotProcessed == [stripped |-> <<>>, text |-> <<>>]

InitPost ==
    /\ laws = ScenarioLaws
    /\ laws_ok = LawsOk(laws)
    /\ arg = <<>>
    /\ found = NoCall
    /\ HAS_LLAMA = TRUE
    /\ modelExists = TRUE
    /\ llm = 0
    /\ built = 0
    /\ failed = 0
    /\ workers = <<>>
    /\ events = <<>>
    /\ out = <<HomeEntry>>
    /\ calls = <<>>
    /\ raw \in RawTexts
    /\ post = NotProcessed

\* lines 111-131 of AIWorker.run on raw: stripped is text when the for loop
\* is left, text is text when the try block is left
PostProcessRaw ==
    /\ post = NotProcessed
    /\ post' = [stripped |-> StripEchoPrefixes(Strip(raw), 1),
                text |-> PostProcess(raw)]
    /\ UNCHANGED <<laws, laws_ok, arg, found, HAS_LLAMA, modelExists, llm,
                   built, failed, workers, events, out, calls, raw>>

SpecPost == InitPost /\ [][PostProcessRaw]_vars

-----------------------------------------------------------------------------
(* Claims about the Fragment Locator, checked under SpecLocate.            *)

\* The document categories as the specification lists them, in priority
\* order: criminal, administrative, civil, constitution, police, consumer.
ClaimCategories ==
    << [file |-> "uk_rf.txt",           triggers |-> {kw_ugolov, kw_uk}],
       [file |-> "koap_rf.txt",         triggers |-> {kw_koap, kw_administrativ}],
       [file |-> "gk_rf.txt",           triggers |-> {kw_gk, kw_grazhdan}],
       [file |-> "constitution_rf.txt", triggers |-> {kw_konstituc}],
       [file |-> "law_police.txt",      triggers |-> {kw_polici}],
       [file |-> "law_consumer.txt",    triggers |-> {kw_potrebitel}] >>

ClaimCategory(q) ==
    LET hit == {k \in DOMAIN ClaimCategories :
                  \E t \in ClaimCategories[k].triggers : Contains(q, t)}
    IN  IF hit = {} THEN None
        ELSE ClaimCategories[CHOOSE k \in hit : \A j \in hit : k <= j].file

\* the lowercase text of a file under laws/, "" when the file is absent
LowText(f) == IF laws[f].exists THEN Lower(laws[f].text) ELSE <<>>

\* the query of the last search names an article number and a category, and
\* that category's document holds "статья N"
PreciseCase ==
    LET q   == Lower(found.query)
        num == FirstNumber(q)
        cat == ClaimCategory(q)
    IN  /\ found # NoCall
        /\ laws_ok
        /\ num # <<>>
        /\ cat # None
        /\ Contains(LowText(cat), ArticleWord \o num)

\* frag is a piece of full that holds the n characters at offset i
Covers(full, frag, i, n) ==
    \E s \in 0..i :
        /\ s + Len(frag) <= Len(full)
        /\ i + n <= s + Len(frag)
        /\ frag = SubSeq(full, s + 1, s + Len(frag))

\* C5: a query with a number N and a category whose document holds
\* "статья N" (case-insensitively) is answered with a fragment of that very
\* document, and the fragment's window covers the match.
C5_PreciseLookupReturnsClassifiedDocument ==
    PreciseCase =>
        LET q   == Lower(found.query)
            pat == ArticleWord \o FirstNumber(q)
            cat == ClaimCategory(q)
        IN  /\ found.fname = cat
            /\ OccursAt(LowText(cat), pat, found.idx)
            /\ Covers(laws[cat].text, found.frag, found.idx, Len(pat))

\* C5 witness: the precise lookup answered from the criminal code although a
\* document earlier in LAWS_FILES holds the whole query too, and the match
\* lies beyond the window's reach from the document start.
C5_Witness ==
    /\ PreciseCase
    /\ found.fname = "uk_rf.txt"
    /\ Contains(LowText("constitution_rf.txt"), Lower(found.query))
    /\ found.idx > WindowBefore

\* the places in LAWS_FILES whose document holds the lowercased query
Holders ==
    {k \in DOMAIN LAWS_FILES : Contains(LowText(LAWS_FILES[k]), Lower(found.query))}

\* C6: when the query has no number or no category, or the precise lookup
\* finds nothing, the answer is the first document in LAWS_FILES order that
\* holds the whole lowercased query, and NotFound only if none holds it.
C6_FallbackReturnsFirstHolderInOrder ==
    (found # NoCall /\ ~PreciseCase) =>
        IF Holders = {}
        THEN found.fname = None
        ELSE LET first == CHOOSE k \in Holders : \A j \in Holders : k <= j
             IN  /\ found.fname = LAWS_FILES[first]
                 /\ OccursAt(LowText(found.fname), Lower(found.query), found.idx)

\* C6 witness: two documents hold a query that has no category, and the
\* one earlier in LAWS_FILES was returned.
C6_Witness ==
    /\ found # NoCall
    /\ ~PreciseCase
    /\ Cardinality(Holders) >= 2
    /\ found.fname = "uk_rf.txt"

\* C7: a returned fragment is a contiguous piece of the matched document
\* that starts at most 80 characters before the match offset, never before
\* the document start, and ends at most 900 characters after the offset,
\* never past the document end.
C7_WindowWithinBounds ==
    found.fname # None =>
        LET full == laws[found.fname].text
            i    == found.idx
            n    == Len(found.frag)
        IN  /\ i >= 0
            /\ \E s \in Max(0, i - WindowBefore)..i :
                 /\ s + n <= Len(full)
                 /\ s + n <= i + WindowAfter
                 /\ s + n > i
                 /\ found.frag = SubSeq(full, s + 1, s + n)

\* C7 witness: a match at offset 0 of a document longer than the window; the
\* fragment starts at the document start and is cut 900 characters on.
C7_Witness ==
    /\ found.fname # None
    /\ found.idx = 0
    /\ Len(laws[found.fname].text) > WindowAfter
    /\ Len(found.frag) = WindowAfter

-----------------------------------------------------------------------------
(* Claims about the engine and the coordinator, checked under Spec.        *)

\* how many emissions of worker w wait in the interactive thread's queue
Queued(w) == Cardinality({i \in DOMAIN events : events[i].w = w})

\* the entries ai_done appended for worker w
Answers(w) == {i \in DOMAIN out : out[i].kind = "answer" /\ out[i].ask = w}

\* C1: every ask_ai call with a non-blank query gets its callback exactly
\* once: no call and no queued emission before the worker's run has ended,
\* and from then on exactly one emission, queued or handled, never two,
\* whether the engine was unavailable, generated, or raised.
C1_CallbackExactlyOnce ==
    \A w \in Workers :
        /\ calls[w] + Queued(w) = (IF workers[w].pc = "done" THEN 1 ELSE 0)
        /\ calls[w] = Cardinality(Answers(w))

\* C1 witness: two questions were asked; one worker found the engine
\* unavailable, the other's generation call raised; each callback ran once.
C1_Witness ==
    \E v, w \in Workers :
        /\ workers[v].pc = "done" /\ workers[v].engine = 0
        /\ workers[w].pc = "done" /\ workers[w].text = ErrorText(fault_X)
        /\ calls[v] = 1 /\ calls[w] = 1
        /\ events = <<>>

\* C2: every answer handed to the callback is non-empty and ends in one of
\* . ? ! … » " '
C2_AnswerTerminallyPunctuated ==
    \A i \in DOMAIN out :
        out[i].kind = "answer" =>
            /\ out[i].text # <<>>
            /\ out[i].text[Len(out[i].text)] \in TerminalMarks

\* C3: the shared engine handle is constructed at most once per process
\* (a second construction is what overwrites a handle that was set).
C3_EngineConstructedAtMostOnce == built <= 1

\* C4: a worker whose get_llm call returned None (library absent, model file
\* missing, or construction raised) never calls the engine, and the text it
\* emits, and the callback receives, is the fixed diagnostic message.
C4_UnavailableGivesDiagnostic ==
    \A w \in Workers :
        (workers[w].pc = "done" /\ workers[w].engine = 0) =>
            /\ workers[w].gen = 0
            /\ workers[w].text = DiagnosticMessage
            /\ \A i \in DOMAIN events :
                 events[i].w = w => events[i].text = DiagnosticMessage
            /\ \A i \in Answers(w) : out[i].text = DiagnosticMessage

\* C4 witness: the library and the model file are there, construction
\* raised, and the callback got the diagnostic for a question that had a
\* fragment.
C4_Witness ==
    \E w \in Workers :
        /\ HAS_LLAMA /\ modelExists
        /\ workers[w].attempted /\ workers[w].engine = 0
        /\ workers[w].fragment # <<>>
        /\ \E i \in Answers(w) : out[i].text = DiagnosticMessage

\* C8 as stated: once a construction has raised, no get_llm call that begins
\* afterwards constructs the model again.
C8_NoConstructionAfterFailure ==
    \A w \in Workers : ~(workers[w].attempted /\ workers[w].failedBefore)

\* C8 as amended: a failed construction leaves the handle empty, and a
\* get_llm call constructs the model only when the library is present and
\* the model file exists; with a precondition missing it returns None
\* without constructing, every time.
C8_ConstructionOnlyWithPreconditions ==
    /\ \A w \in Workers :
         /\ workers[w].attempted => (HAS_LLAMA /\ modelExists)
         /\ workers[w].pc = "construct" => (HAS_LLAMA /\ modelExists)
    /\ (~HAS_LLAMA \/ ~modelExists) => (built = 0 /\ failed = 0 /\ llm = 0)
    /\ (built = 0) = (llm = 0)

\* C8 witness: a construction raised, and a get_llm call that began after it
\* constructed the model again.
C8_Witness ==
    \E w \in Workers :
        /\ workers[w].attempted
        /\ workers[w].failedBefore
        /\ failed >= 1

\* C10: every entry of the display log was appended by the interactive
\* thread; a worker only queues its emission, and the answer entry appears
\* when ai_done handles it, once per worker.
C10_LogWrittenByInteractiveThreadOnly ==
    /\ \A i \in DOMAIN out : out[i].by = "main"
    /\ \A w \in Workers :
         Cardinality(Answers(w)) + Queued(w) <= 1

\* C10 witness: two workers ran concurrently and the second question's
\* answer was appended before the first's.
C10_Witness ==
    \E i, j \in DOMAIN out :
        /\ i < j
        /\ out[i].kind = "answer" /\ out[i].ask = 2
        /\ out[j].kind = "answer" /\ out[j].ask = 1

-----------------------------------------------------------------------------
(* Claims about the post-processing, checked under SpecPost.               *)

\* the texts left when prefixes k, k+1, ... of the list are each removed at
\* most once, in list order, from the start of t
RECURSIVE StrippedInOrder(_, _)
StrippedInOrder(t, k) ==
    {t} \cup UNION { IF StartsWith(t, EchoPrefixes[j])
                     THEN StrippedInOrder(DropPrefix(t, EchoPrefixes[j]), j + 1)
                     ELSE {} : j \in k..Len(EchoPrefixes) }

\* C9 as stated: at most one echo prefix is removed from the generated text.
C9_AtMostOnePrefixStripped ==
    post # NotProcessed =>
        \/ post.stripped = Strip(raw)
        \/ \E j \in DOMAIN EchoPrefixes :
             /\ StartsWith(Strip(raw), EchoPrefixes[j])
             /\ post.stripped = DropPrefix(Strip(raw), EchoPrefixes[j])

\* C9 as amended: each echo prefix is removed at most once, in list order,
\* case-sensitively and only from the start of the text the earlier
\* removals left; so up to five prefixes can go, never the same one twice.
C9_EachPrefixStrippedAtMostOnceInOrder ==
    post # NotProcessed => post.stripped \in StrippedInOrder(Strip(raw), 1)

\* C9 witness: a text that begins with two prefixes in list order lost both,
\* and one that begins with the same prefix twice lost one.
C9_Witness ==
    \/ /\ raw = P_Otvet \o P_otvet \o piece_da
       /\ post.stripped = piece_da
    \/ /\ raw = P_Otvet \o P_Otvet \o piece_da
       /\ post.stripped = P_Otvet \o piece_da
====
